---- MODULE Spec2Model ----
(***************************************************************************)
(* BatchInsert (src/src/batch/batch_insert.py): a dataset is cut into row  *)
(* ranges, one bulk_load coroutine is created per range, all are awaited   *)
(* by asyncio.gather and throttled by an asyncio.Semaphore(min_conn) that  *)
(* is created per execute call.  Every bulk_load borrows a connection of   *)
(* the shared pool and streams its range through COPY ... FROM STDIN.      *)
(*                                                                         *)
(* A coroutine runs atomically from one await to the next, so every action *)
(* below is one such stretch of one coroutine.                             *)
(***************************************************************************)
EXTENDS Integers, Sequences, FiniteSets

\* ---- bounds of the model
MaxCalls == 2
MaxRows == 3
MaxBatch == 2
MaxMinConn == 2
ExtraConn == 1
MaxFaults == 2

\* ---- program constants
\* tries=3 of @retry(Exception, tries=3, delay=2, backoff=1)
Tries == 3

NoData == 0
NoErr == "none"

Calls == 1..MaxCalls

VARIABLES
    batch_size,   \* self.batch_size
    min_conn,     \* self.min_conn
    max_conn,     \* self.max_conn
    data_df,      \* self.data_df: NoData (None) or the id of the dataset
    pool_state,   \* self.pool: "new", "open" or "closed"
    leased,       \* connections of self.pool checked out by pool.connection()
    op,           \* the lifecycle call in progress: [kind, attempts]
    op_result,    \* how the last lifecycle call ended
    call,         \* number of execute calls started so far
    rows,         \* rows[c]: data_df.shape[0] of the dataset given to call c
    result,       \* result[c]: "unstarted", "running", "completed", "failed"
    exec_err,     \* exec_err[c]: the error execute call c raised to its caller
    gather_exc,   \* gather_exc[c]: exception set on the future of gather
    semaphore,    \* semaphore[c]: value of the Semaphore of call c
    tasks,        \* tasks[c]: the bulk_load tasks of call c, in range order
    cols,         \* cols[c]: the columns of call c: requested, of the caller's
                  \* frame, of the frame in self.data_df, in the COPY query
    faults        \* failures injected by the environment so far

vars == <<batch_size, min_conn, max_conn, data_df, pool_state, leased, op,
          op_result, call, rows, result, exec_err, gather_exc, semaphore,
          tasks, cols, faults>>

config == <<batch_size, min_conn, max_conn>>
poolv == <<pool_state, leased, op, op_result>>
callv == <<call, rows, result, exec_err>>

Min(a, b) == IF a < b THEN a ELSE b

\* ---- src.utils.dataframe_utils.get_ranges
\* Ranges of length batch in order, the last possibly shorter, covering
\* [0, total); the empty sequence when total = 0.
get_ranges(total, batch) ==
    [i \in 1..((total + batch - 1) \div batch) |->
        <<(i - 1) * batch, Min(i * batch, total)>>]

\* ---- the retry decorator on an async def
\* retry calls the decorated function inside try/except, up to `tries` times.
\* Calling an async def only builds the coroutine object: the body runs when
\* the caller awaits it, outside that try/except.
RaisedInsideCall(isCoroutineFunction) == ~isCoroutineFunction

\* TRUE when the decorator runs the operation again after a failure of
\* attempt number `attempt`.
retry(attempt, isCoroutineFunction) ==
    RaisedInsideCall(isCoroutineFunction) /\ attempt < Tries

\* Slice with the end of the range taken as inclusive.
SliceInclusive(ds, lo, hi) ==
    [k \in 1..(IF Min(hi + 1, rows[ds]) > lo THEN Min(hi + 1, rows[ds]) - lo ELSE 0)
        |-> <<ds, lo + k - 1>>]

\* ---- data_df[range_[0]: range_[1]] followed by to_csv(header=False)
\* The rows (dataset id, row index) of the slice, in order; a slice beyond
\* the end of the frame is cut at the end.
Slice(ds, lo, hi) ==
    [k \in 1..(IF Min(hi, rows[ds]) > lo THEN Min(hi, rows[ds]) - lo ELSE 0)
        |-> <<ds, lo + k - 1>>]

\* ---- the columns of a frame and of the COPY query
\* The columns of every dataset handed to execute, in declared order.
DeclaredColumns == <<"a", "b">>

\* What the caller may pass as col_names: nothing (None), one column, all
\* columns in another order.
Requests == {<<>>, <<"b">>, <<"b", "a">>}

NoCols == [requested |-> <<>>, caller |-> <<>>, frame |-> <<>>, copy |-> <<>>]

\* data_df[col_names] with the columns left in the order of the frame.
SelectInFrameOrder(frame, col_names) ==
    LET kept == {k \in DOMAIN frame : \E j \in DOMAIN col_names : col_names[j] = frame[k]}
        Nth[n \in 0..Len(frame)] ==
            IF n = 0 THEN <<>>
            ELSE IF n \in kept THEN Append(Nth[n - 1], frame[n]) ELSE Nth[n - 1]
    IN  Nth[Len(frame)]

\* data_df[col_names]: a new frame with the columns col_names, in that order.
Select(frame, col_names) == col_names

\* ",".join(names): the names with a comma between two neighbours.
RECURSIVE Join(_)
Join(names) ==
    IF names = <<>> THEN <<>>
    ELSE IF Len(names) = 1 THEN <<names[1]>>
    ELSE <<names[1], ",">> \o Join(Tail(names))

\* The column list of `COPY t (a,b) FROM STDIN` as the destination reads it.
RECURSIVE CopyColumns(_)
CopyColumns(text) ==
    IF text = <<>> THEN <<>>
    ELSE IF Head(text) = "," THEN CopyColumns(Tail(text))
    ELSE <<Head(text)>> \o CopyColumns(Tail(text))

\* execute, `if col_names:` to the join: the frame kept in self.data_df and
\* the column text handed to every bulk_load.
Columns(caller_frame, col_names) ==
    LET frame == IF col_names # <<>> THEN Select(caller_frame, col_names)
                 ELSE caller_frame
    IN  [requested |-> col_names,
         caller |-> caller_frame,
         frame |-> frame,
         copy |-> Join(IF col_names # <<>> THEN col_names ELSE frame)]

NewTask(range_) ==
    [pc |-> "pending", lo |-> range_[1], hi |-> range_[2], attempt |-> 1,
     permit |-> FALSE, lease |-> FALSE,
     err |-> NoErr, read |-> NoData, sent |-> <<>>]

TaskIds(c) == DOMAIN tasks[c]
HoldsPermit(c, i) == tasks[c][i].permit
HoldsLease(c, i) == tasks[c][i].lease
Finished(c, i) == tasks[c][i].pc \in {"done", "failed"}

Ended(c) == result[c] \in {"completed", "failed"}

\* No execute call is in progress: the caller may start the next operation.
CallerIdle == IF call = 0 THEN TRUE ELSE Ended(call)

\* The object after __init__, before any call: no dataset, a pool that is
\* not open, no execute call made.
Constructed ==
    /\ data_df = NoData
    /\ pool_state = "new"
    /\ leased = 0
    /\ op = [kind |-> "none", attempts |-> 0]
    /\ op_result = "none"
    /\ call = 0
    /\ rows = [c \in Calls |-> 0]
    /\ result = [c \in Calls |-> "unstarted"]
    /\ exec_err = [c \in Calls |-> NoErr]
    /\ gather_exc = [c \in Calls |-> NoErr]
    /\ semaphore = [c \in Calls |-> 0]
    /\ tasks = [c \in Calls |-> <<>>]
    /\ cols = [c \in Calls |-> NoCols]
    /\ faults = 0

Init ==
    /\ batch_size \in 1..MaxBatch
    /\ min_conn \in 1..MaxMinConn
    /\ max_conn = min_conn + ExtraConn
    /\ Constructed

\* ---- open_connection_pool / close_connection_pool
\* The caller awaits the lifecycle operation; the decorator has called it once.
lifecycle_call(kind) ==
    /\ op.kind = "none"
    /\ CallerIdle
    /\ \/ kind = "open" /\ pool_state = "new"
       \/ kind = "close" /\ pool_state = "open"
    /\ op' = [kind |-> kind, attempts |-> 1]
    /\ op_result' = "none"
    /\ UNCHANGED <<config, cols, data_df, pool_state, leased, callv, gather_exc,
                   semaphore, tasks, faults>>

\* await self.pool.open(wait=True) / await self.pool.close() returns.
lifecycle_ok ==
    /\ op.kind # "none"
    /\ pool_state' = IF op.kind = "open" THEN "open" ELSE "closed"
    /\ op_result' = IF op.kind = "open" THEN "open_ok" ELSE "close_ok"
    /\ op' = [kind |-> "none", attempts |-> op.attempts]
    /\ UNCHANGED <<config, cols, data_df, leased, callv, gather_exc, semaphore,
                   tasks, faults>>

\* await self.pool.open(wait=True) / await self.pool.close() raises.
lifecycle_raise ==
    /\ op.kind # "none"
    /\ faults < MaxFaults
    /\ faults' = faults + 1
    /\ IF retry(op.attempts, TRUE)
       THEN /\ op' = [op EXCEPT !.attempts = @ + 1]
            /\ UNCHANGED op_result
       ELSE /\ op' = [kind |-> "none", attempts |-> op.attempts]
            /\ op_result' = IF op.kind = "open" THEN "open_raised" ELSE "close_raised"
    /\ UNCHANGED <<config, cols, data_df, pool_state, leased, callv, gather_exc,
                   semaphore, tasks>>

\* handle_csv_bulk_insert with the Semaphore sized by max_conn.
handle_csv_bulk_insert_max_conn(c, partition_ranges) ==
    /\ semaphore' = [semaphore EXCEPT ![c] = max_conn]
    /\ tasks' = [tasks EXCEPT ![c] =
                    [i \in 1..Len(partition_ranges) |-> NewTask(partition_ranges[i])]]

\* ---- handle_csv_bulk_insert: one Semaphore(min_conn), one bulk_load
\* coroutine per range, all handed to gather.
handle_csv_bulk_insert(c, partition_ranges) ==
    /\ semaphore' = [semaphore EXCEPT ![c] = min_conn]
    /\ tasks' = [tasks EXCEPT ![c] =
                    [i \in 1..Len(partition_ranges) |-> NewTask(partition_ranges[i])]]

\* execute on an empty partition raising instead of returning.
execute_empty_raises(c) ==
    /\ result' = [result EXCEPT ![c] = "failed"]
    /\ data_df' = NoData
    /\ UNCHANGED <<semaphore, tasks>>

\* `if not partition_ranges: return`; the finally clause clears data_df.
execute_empty(c) ==
    /\ result' = [result EXCEPT ![c] = "completed"]
    /\ data_df' = NoData
    /\ UNCHANGED <<semaphore, tasks>>

\* ---- execute, up to its await of gather
\* The caller awaits one operation of the dispatcher at a time and has
\* opened the pool before.
execute(n, col_names) ==
    LET c == call + 1
        partition_ranges == get_ranges(n, batch_size)
    IN  /\ call < MaxCalls
        /\ CallerIdle
        /\ op.kind = "none"
        /\ pool_state = "open"
        /\ call' = c
        /\ rows' = [rows EXCEPT ![c] = n]
        /\ IF partition_ranges = <<>>
           THEN /\ execute_empty(c)
                /\ cols' = [cols EXCEPT ![c] =
                               [NoCols EXCEPT !.requested = col_names,
                                              !.caller = DeclaredColumns]]
           ELSE /\ result' = [result EXCEPT ![c] = "running"]
                /\ cols' = [cols EXCEPT ![c] = Columns(DeclaredColumns, col_names)]
                /\ data_df' = c
                /\ handle_csv_bulk_insert(c, partition_ranges)
        /\ UNCHANGED <<config, poolv, exec_err, gather_exc, faults>>

\* ---- bulk_load, the coroutine of task i of call c
SetTask(c, i, t) == tasks' = [tasks EXCEPT ![c][i] = t]

\* The coroutine ends.  An error of the body is the exception of the task
\* unless the retry decorator runs the body again; the first exception of a
\* task of call c becomes the exception of the gather future of call c.
task_ends(c, i, t) ==
    IF t.err = NoErr
    THEN /\ SetTask(c, i, [t EXCEPT !.pc = "done"])
         /\ UNCHANGED gather_exc
    ELSE IF retry(t.attempt, TRUE)
    THEN /\ SetTask(c, i, [t EXCEPT !.pc = "pending", !.err = NoErr, !.attempt = @ + 1])
         /\ UNCHANGED gather_exc
    ELSE /\ SetTask(c, i, [t EXCEPT !.pc = "failed"])
         /\ gather_exc' = [gather_exc EXCEPT ![c] = IF @ = NoErr THEN t.err ELSE @]

\* The connection context still open when the semaphore context exits.
exit_connection_late(t) == t

\* The task leaves `async with pool.connection(timeout=60)`.
exit_connection(t) == [t EXCEPT !.lease = FALSE]

\* The task leaves `async with semaphore`.
exit_semaphore(t) == [t EXCEPT !.permit = FALSE]

\* A release that gives back two permits.
release_permit_twice(c) == semaphore' = [semaphore EXCEPT ![c] = @ + 2]

\* Semaphore.release(): the value goes up by one.
release_permit(c) == semaphore' = [semaphore EXCEPT ![c] = @ + 1]

\* A connection that is not given back to the pool.
release_lease_leak == UNCHANGED leased

\* The pool.connection context exits: the connection goes back to the pool.
release_lease == leased' = leased - 1

\* asyncio starts the tasks of gather in the order of creation and wakes the
\* waiters of a Semaphore first come, first served.
NextInLine(c, i) ==
    \A j \in 1..(i - 1) :
        tasks[c][j].pc # "pending" \/ tasks[c][j].attempt > tasks[c][i].attempt

\* async with semaphore: the permit is taken when the value is positive.
acquire_permit(c, i) ==
    /\ tasks[c][i].pc = "pending"
    /\ NextInLine(c, i)
    /\ semaphore[c] > 0
    /\ semaphore' = [semaphore EXCEPT ![c] = @ - 1]
    /\ SetTask(c, i, [tasks[c][i] EXCEPT !.pc = "wait_lease", !.permit = TRUE])
    /\ UNCHANGED <<config, cols, data_df, poolv, callv, gather_exc, faults>>

\* async with pool.connection(timeout=60): a connection is handed out.
acquire_lease(c, i) ==
    /\ tasks[c][i].pc = "wait_lease"
    /\ pool_state = "open"
    /\ leased < max_conn
    /\ leased' = leased + 1
    /\ SetTask(c, i, [tasks[c][i] EXCEPT !.pc = "has_lease", !.lease = TRUE])
    /\ UNCHANGED <<config, cols, data_df, pool_state, op, op_result, callv,
                   gather_exc, semaphore, faults>>

\* A failed wait for a connection that leaves the semaphore's value as it is.
lease_fail_keeps_permit(c, i) ==
    /\ tasks[c][i].pc = "wait_lease"
    /\ \/ /\ pool_state # "open"
          /\ task_ends(c, i, exit_semaphore([tasks[c][i] EXCEPT !.err = "PoolClosed"]))
          /\ UNCHANGED faults
       \/ /\ pool_state = "open"
          /\ faults < MaxFaults
          /\ faults' = faults + 1
          /\ task_ends(c, i, exit_semaphore([tasks[c][i] EXCEPT !.err = "PoolTimeout"]))
    /\ UNCHANGED semaphore
    /\ UNCHANGED <<config, cols, data_df, poolv, callv>>

\* pool.connection(timeout=60) raises: the pool is closed, or no connection
\* came within the timeout.  The semaphore context exits with the error.
lease_fail(c, i) ==
    /\ tasks[c][i].pc = "wait_lease"
    /\ \/ /\ pool_state # "open"
          /\ task_ends(c, i, exit_semaphore([tasks[c][i] EXCEPT !.err = "PoolClosed"]))
          /\ UNCHANGED faults
       \/ /\ pool_state = "open"
          /\ faults < MaxFaults
          /\ faults' = faults + 1
          /\ task_ends(c, i, exit_semaphore([tasks[c][i] EXCEPT !.err = "PoolTimeout"]))
    /\ release_permit(c)
    /\ UNCHANGED <<config, cols, data_df, poolv, callv>>

\* acur.copy(copy_query) is entered, then self.data_df[range_[0]: range_[1]]
\* is read and rendered by to_csv.  None is not subscriptable: the TypeError
\* unwinds the connection context, then the semaphore context.
serialize(c, i) ==
    /\ tasks[c][i].pc = "has_lease"
    /\ IF data_df = NoData
       THEN /\ task_ends(c, i, exit_semaphore(exit_connection(
                               [tasks[c][i] EXCEPT !.err = "TypeError"])))
            /\ release_lease
            /\ release_permit(c)
       ELSE /\ SetTask(c, i, [tasks[c][i] EXCEPT !.pc = "writing", !.read = data_df])
            /\ UNCHANGED <<leased, semaphore, gather_exc>>
    /\ UNCHANGED <<config, cols, data_df, pool_state, op, op_result, callv, faults>>

\* to_csv raises on a row it cannot render.
serialize_fail(c, i) ==
    /\ tasks[c][i].pc = "has_lease"
    /\ data_df # NoData
    /\ faults < MaxFaults
    /\ faults' = faults + 1
    /\ task_ends(c, i, exit_semaphore(exit_connection(
                          [tasks[c][i] EXCEPT !.err = "SerializationError",
                                              !.read = data_df])))
    /\ release_lease
    /\ release_permit(c)
    /\ UNCHANGED <<config, cols, data_df, pool_state, op, op_result, callv>>

\* await copy.write(io_buffer.read()) returns; the copy, the cursor and the
\* connection contexts exit, then the semaphore context.
write_ok(c, i) ==
    /\ tasks[c][i].pc = "writing"
    /\ task_ends(c, i, exit_semaphore(exit_connection(
                          [tasks[c][i] EXCEPT
                              !.sent = Append(@, Slice(tasks[c][i].read, tasks[c][i].lo,
                                                       tasks[c][i].hi))])))
    /\ release_lease
    /\ release_permit(c)
    /\ UNCHANGED <<config, cols, data_df, pool_state, op, op_result, callv, faults>>

\* The bulk-copy channel rejects or aborts the stream.
write_fail(c, i) ==
    /\ tasks[c][i].pc = "writing"
    /\ faults < MaxFaults
    /\ faults' = faults + 1
    /\ task_ends(c, i, exit_semaphore(exit_connection(
                          [tasks[c][i] EXCEPT !.err = "TransferProtocolError"])))
    /\ release_lease
    /\ release_permit(c)
    /\ UNCHANGED <<config, cols, data_df, pool_state, op, op_result, callv>>

\* gather(..., return_exceptions=True): returns once every task has finished,
\* failed or not.
gather_return_exceptions(c) ==
    /\ result[c] = "running"
    /\ \A i \in TaskIds(c) : Finished(c, i)
    /\ result' = [result EXCEPT ![c] = "completed"]
    /\ data_df' = NoData
    /\ UNCHANGED <<config, cols, poolv, call, rows, exec_err, gather_exc, semaphore,
                   tasks, faults>>

\* execute wrapping the error of gather in an error of its own.
gather_raise_wrapped(c) ==
    /\ result[c] = "running"
    /\ gather_exc[c] # NoErr
    /\ result' = [result EXCEPT ![c] = "failed"]
    /\ exec_err' = [exec_err EXCEPT ![c] = "RuntimeError"]
    /\ data_df' = NoData
    /\ UNCHANGED <<config, cols, poolv, call, rows, gather_exc, semaphore, tasks,
                   faults>>

\* execute without the finally clause on the error path.
gather_raise_keeps_data(c) ==
    /\ result[c] = "running"
    /\ gather_exc[c] # NoErr
    /\ result' = [result EXCEPT ![c] = "failed"]
    /\ exec_err' = [exec_err EXCEPT ![c] = gather_exc[c]]
    /\ UNCHANGED <<config, cols, poolv, call, rows, gather_exc, semaphore, tasks,
                   faults, data_df>>

\* ---- execute, resumed by gather
\* await asyncio.gather(*tasks) returns when every task has a result.
gather_return(c) ==
    /\ result[c] = "running"
    /\ gather_exc[c] = NoErr
    /\ \A i \in TaskIds(c) : tasks[c][i].pc = "done"
    /\ result' = [result EXCEPT ![c] = "completed"]
    /\ data_df' = NoData
    /\ UNCHANGED <<config, cols, poolv, call, rows, exec_err, gather_exc, semaphore,
                   tasks, faults>>

\* await asyncio.gather(*tasks) raises the first exception of a task;
\* `except Exception as e: raise e` passes it on and `finally` clears data_df.
gather_raise(c) ==
    /\ result[c] = "running"
    /\ gather_exc[c] # NoErr
    /\ result' = [result EXCEPT ![c] = "failed"]
    /\ exec_err' = [exec_err EXCEPT ![c] = gather_exc[c]]
    /\ data_df' = NoData
    /\ UNCHANGED <<config, cols, poolv, call, rows, gather_exc, semaphore, tasks,
                   faults>>

Next ==
    \/ \E k \in {"open", "close"} : lifecycle_call(k)
    \/ lifecycle_ok
    \/ lifecycle_raise
    \/ \E n \in 0..MaxRows : execute(n, <<>>)
    \/ \E c \in Calls : \E i \in TaskIds(c) : acquire_permit(c, i)
    \/ \E c \in Calls : \E i \in TaskIds(c) : acquire_lease(c, i)
    \/ \E c \in Calls : \E i \in TaskIds(c) : lease_fail(c, i)
    \/ \E c \in Calls : \E i \in TaskIds(c) : serialize(c, i)
    \/ \E c \in Calls : \E i \in TaskIds(c) : serialize_fail(c, i)
    \/ \E c \in Calls : \E i \in TaskIds(c) : write_ok(c, i)
    \/ \E c \in Calls : \E i \in TaskIds(c) : write_fail(c, i)
    \/ \E c \in Calls : gather_return(c)
    \/ \E c \in Calls : gather_raise(c)

Spec == Init /\ [][Next]_vars

\* ---- the same dispatcher, the caller passing col_names as well
\* One configuration: the columns depend on neither batch_size nor min_conn.
InitCols == Init /\ batch_size = MaxBatch /\ min_conn = MaxMinConn

NextCols ==
    \/ Next
    \/ \E n \in 0..MaxRows : \E col_names \in Requests : execute(n, col_names)

SpecCols == InitCols /\ [][NextCols]_vars

\* ---- what the properties speak of
Started(c) == c <= call
PermitHolders(c) == {i \in TaskIds(c) : HoldsPermit(c, i)}
LeaseHolders(c) == {i \in TaskIds(c) : HoldsLease(c, i)}
FailedTasks(c) == {i \in TaskIds(c) : tasks[c][i].pc = "failed"}
DoneTasks(c) == {i \in TaskIds(c) : tasks[c][i].pc = "done"}
PendingTasks(c) == {i \in TaskIds(c) : tasks[c][i].pc = "pending"}

\* Number of payloads of the first i tasks of call c that carry row <<ds, r>>.
RECURSIVE TimesSent(_, _, _, _)
TimesSent(c, ds, r, i) ==
    IF i = 0 THEN 0
    ELSE TimesSent(c, ds, r, i - 1)
         + Cardinality({k \in DOMAIN tasks[c][i].sent :
                          \E p \in DOMAIN tasks[c][i].sent[k] :
                              tasks[c][i].sent[k][p] = <<ds, r>>})

\* Number of rows in a sequence of payloads.
RECURSIVE RowsIn(_)
RowsIn(payloads) ==
    IF payloads = <<>> THEN 0 ELSE Len(Head(payloads)) + RowsIn(Tail(payloads))

\* Number of rows in all payloads of the first i tasks of call c.
RECURSIVE TotalSent(_, _)
TotalSent(c, i) ==
    IF i = 0 THEN 0 ELSE TotalSent(c, i - 1) + RowsIn(tasks[c][i].sent)

\* C1: in every reachable state, for every execute call, the number of its
\* tasks holding a permit of the Semaphore of that call is at most min_conn.
C1_PermitsAtMostMinConn ==
    \A c \in Calls : Cardinality(PermitHolders(c)) <= min_conn

\* All permits of a call are held, a task of it waits for one and another
\* task of it has failed and given its permit back.
C1_Witness ==
    \E c \in Calls :
        /\ Cardinality(PermitHolders(c)) = min_conn
        /\ PendingTasks(c) # {}
        /\ FailedTasks(c) # {}

\* C2: once an execute call has returned or raised, every task it launched
\* has finished.
C2_EndsOnlyWhenAllTasksFinished ==
    \A c \in Calls : Ended(c) => \A i \in TaskIds(c) : Finished(c, i)

\* C3: a transfer whose error reaches the dispatcher has been attempted
\* Tries times.
C3_FailsOnlyAfterThirdAttempt ==
    \A c \in Calls : \A i \in FailedTasks(c) :
        tasks[c][i].err \in {"PoolTimeout", "SerializationError", "TransferProtocolError"}
            => tasks[c][i].attempt = Tries

\* C4: when an execute call has returned without error, it launched
\* ceil(rows / batch_size) tasks, each task wrote one payload, the payloads
\* hold rows of the dataset of the call only, as many as the dataset has,
\* and every row of the dataset is in exactly one payload.
C4_CompletedSendsEachRowOnce ==
    \A c \in Calls :
        result[c] = "completed" =>
            /\ Len(tasks[c]) * batch_size >= rows[c]
            /\ (Len(tasks[c]) - 1) * batch_size < rows[c] \/ rows[c] = 0
            /\ \A i \in TaskIds(c) :
                  /\ Len(tasks[c][i].sent) = 1
                  /\ tasks[c][i].sent[1] # <<>>
                  /\ tasks[c][i].attempt = 1
            /\ TotalSent(c, Len(tasks[c])) = rows[c]
            /\ \A r \in 0..(rows[c] - 1) : TimesSent(c, c, r, Len(tasks[c])) = 1

\* A call of 3 rows in ranges of 2 has completed: [0,2) and the short [2,3).
C4_Witness ==
    \E c \in Calls :
        /\ result[c] = "completed"
        /\ rows[c] = 3
        /\ batch_size = 2
        /\ Len(tasks[c]) = 2
        /\ tasks[c][2].sent = << << <<c, 2>> >> >>

C7_NoStaleDataset ==
    /\ CallerIdle => data_df = NoData
    /\ \A c \in Calls : \A i \in TaskIds(c) :
          tasks[c][i].read = NoData \/ tasks[c][i].read >= c

\* A second call on another dataset has completed after the first call
\* raised; every task of the second call read the second dataset.
C7_Witness ==
    /\ call = 2
    /\ result[1] = "failed"
    /\ result[2] = "completed"
    /\ rows[2] > 0
    /\ \A i \in TaskIds(2) : tasks[2][i].read = 2
    /\ data_df = NoData

C9_EmptyIsNoOp ==
    [][(call' = call + 1 /\ rows'[call'] = 0) =>
          /\ result'[call'] = "completed"
          /\ exec_err'[call'] = NoErr
          /\ tasks' = tasks
          /\ semaphore' = semaphore
          /\ leased' = leased
          /\ data_df' = NoData]_vars

\* A call on an empty dataset has returned while a task of the call before
\* still holds a connection.
C9_Witness ==
    /\ call = 2
    /\ rows[2] = 0
    /\ result[2] = "completed"
    /\ tasks[2] = <<>>
    /\ LeaseHolders(1) # {}

\* C10: an error of open_connection_pool or close_connection_pool reaches
\* the caller only after Tries attempts.
C10_LifecycleFailsOnlyAfterThirdAttempt ==
    op_result \in {"open_raised", "close_raised"} => op.attempts = Tries

\* C11: for every execute call that launched transfers, the column list of
\* the COPY query and the columns of the frame the transfers slice are the
\* requested columns in the requested order, or all declared columns in
\* declared order when none was requested; the frame of the caller keeps its
\* declared columns.
C11_ColumnsAsRequested ==
    \A c \in Calls :
        LET expected == IF cols[c].requested # <<>> THEN cols[c].requested
                        ELSE DeclaredColumns
        IN  tasks[c] # <<>> =>
                /\ CopyColumns(cols[c].copy) = expected
                /\ cols[c].frame = expected
                /\ cols[c].caller = DeclaredColumns

\* One call sent all columns, none being requested; the next call sent the
\* requested columns b, a in that order; both completed.
C11_Witness ==
    /\ call = 2
    /\ result[1] = "completed" /\ tasks[1] # <<>>
    /\ cols[1].requested = <<>> /\ cols[1].copy = <<"a", ",", "b">>
    /\ result[2] = "completed" /\ tasks[2] # <<>>
    /\ cols[2].requested = <<"b", "a">> /\ cols[2].copy = <<"b", ",", "a">>

\* The task has reached `self.data_df[range_[0]: range_[1]]`.
HasRead(c, i) ==
    \/ tasks[c][i].pc \in {"writing", "done"}
    \/ tasks[c][i].err \in {"TypeError", "SerializationError", "TransferProtocolError"}

\* C12: every task that has read self.data_df read the dataset of the execute
\* call that launched it: not None, not the dataset of another call.
C12_TasksReadOwnDataset ==
    \A c \in Calls : \A i \in TaskIds(c) : HasRead(c, i) => tasks[c][i].read = c

\* C16: the connections of the pool checked out at any instant, over all
\* execute calls made on the dispatcher, are at most min_conn.
C16_PoolLeasesAtMostMinConn == leased <= min_conn

\* Number of tasks of the calls 1..c that hold a connection.
RECURSIVE LeasesUpTo(_)
LeasesUpTo(c) ==
    IF c = 0 THEN 0 ELSE LeasesUpTo(c - 1) + Cardinality(LeaseHolders(c))

\* C13: a task that has ended holds neither a connection nor a permit; the
\* value of the Semaphore of a call is min_conn less the permits its tasks
\* hold and the connections checked out of the pool are those the tasks
\* hold, so every acquired permit and connection was given back once; when
\* all tasks of a call have ended its Semaphore is back at min_conn.
C13_ReleasedOnEveryPath ==
    /\ \A c \in Calls : \A i \in TaskIds(c) :
          Finished(c, i) => ~HoldsPermit(c, i) /\ ~HoldsLease(c, i)
    /\ \A c \in Calls :
          tasks[c] # <<>> => semaphore[c] = min_conn - Cardinality(PermitHolders(c))
    /\ leased = LeasesUpTo(MaxCalls)
    /\ \A c \in Calls :
          (tasks[c] # <<>> /\ \A i \in TaskIds(c) : Finished(c, i)) =>
              semaphore[c] = min_conn /\ LeaseHolders(c) = {}

\* All three tasks of a call have ended: one succeeded, one failed waiting
\* for a connection, one failed in the copy write; nothing is held.
C13_Witness ==
    \E c \in Calls :
        /\ Len(tasks[c]) = 3
        /\ \A i \in TaskIds(c) : Finished(c, i)
        /\ \E i, j, k \in TaskIds(c) :
              /\ tasks[c][i].pc = "done"
              /\ tasks[c][j].err = "PoolTimeout"
              /\ tasks[c][k].err = "TransferProtocolError"
        /\ semaphore[c] = min_conn
        /\ leased = 0

\* C17: a task that holds a connection holds a permit; a task waiting for a
\* connection holds a permit and no connection; a task waiting for a permit
\* holds neither; a task whose wait for a connection timed out holds neither.
C17_LeaseInsidePermit ==
    \A c \in Calls : \A i \in TaskIds(c) :
        /\ HoldsLease(c, i) => HoldsPermit(c, i)
        /\ tasks[c][i].pc = "wait_lease" => HoldsPermit(c, i) /\ ~HoldsLease(c, i)
        /\ tasks[c][i].pc = "pending" => ~HoldsPermit(c, i) /\ ~HoldsLease(c, i)
        /\ tasks[c][i].err = "PoolTimeout" => ~HoldsPermit(c, i) /\ ~HoldsLease(c, i)

\* A task failed by a timeout of the pool has given its permit back and the
\* next task in line holds that permit and a connection.
C17_Witness ==
    \E c \in Calls : \E i, j \in TaskIds(c) :
        /\ min_conn = 1
        /\ tasks[c][i].err = "PoolTimeout" /\ tasks[c][i].pc = "failed"
        /\ HoldsLease(c, j) /\ HoldsPermit(c, j)

\* The steps of the transfer task i of the call c.
TaskStep(c, i) ==
    /\ i \in TaskIds(c)
    /\ \/ acquire_permit(c, i)
       \/ acquire_lease(c, i)
       \/ lease_fail(c, i)
       \/ serialize(c, i)
       \/ serialize_fail(c, i)
       \/ write_ok(c, i)
       \/ write_fail(c, i)

\* The event loop runs every task that is ready: a transfer task that can
\* take a step takes one, and execute is resumed when gather is ready.
Fairness ==
    /\ \A c \in Calls : \A i \in 1..MaxRows : WF_vars(TaskStep(c, i))
    /\ \A c \in Calls : WF_vars(gather_return(c) \/ gather_raise(c))

\* One permit, one row per range, and a pool of exactly min_conn
\* connections: tasks of a call queue for the permit, and a task of a later
\* call queues for the connection that a task of an earlier call still holds.
InitFair ==
    /\ batch_size = 1
    /\ min_conn = 1
    /\ max_conn = min_conn
    /\ Constructed

FairSpec == InitFair /\ [][Next]_vars /\ Fairness

\* C14: under fair scheduling every launched task that waits for a permit
\* gets one, every launched task ends, and every execute call returns or
\* raises.
C14_EveryTaskTerminates ==
    /\ \A c \in Calls : \A i \in 1..MaxRows :
          (i \in TaskIds(c) /\ tasks[c][i].pc = "pending")
              ~> (i \in TaskIds(c) /\ tasks[c][i].pc # "pending")
    /\ \A c \in Calls : \A i \in 1..MaxRows :
          (i \in TaskIds(c)) ~> (i \in TaskIds(c) /\ Finished(c, i))
    /\ \A c \in Calls : (result[c] = "running") ~> Ended(c)

\* With one permit, the first of three tasks failed waiting for a
\* connection, the later tasks got the permit after it and succeeded, and
\* the call has raised.
C14_Witness ==
    \E c \in Calls :
        /\ min_conn = 1
        /\ Len(tasks[c]) = 3
        /\ tasks[c][1].err = "PoolTimeout"
        /\ tasks[c][2].pc = "done"
        /\ tasks[c][3].pc = "done"
        /\ result[c] = "failed"

\* A task that is cancelled is dropped as it stands: nothing it holds is
\* given back.
cancel_abrupt(c, i) ==
    /\ i \in TaskIds(c)
    /\ ~Finished(c, i)
    /\ faults < MaxFaults
    /\ faults' = faults + 1
    /\ SetTask(c, i, [tasks[c][i] EXCEPT !.pc = "failed", !.err = "CancelledError"])
    /\ gather_exc' = [gather_exc EXCEPT ![c] = IF @ = NoErr THEN "CancelledError" ELSE @]
    /\ UNCHANGED <<leased, semaphore>>
    /\ UNCHANGED <<config, cols, data_df, pool_state, op, op_result, callv>>

\* The task is cancelled at an await of bulk_load: in Semaphore.acquire, in
\* pool.connection, in the entry of the copy or in copy.write.
\* CancelledError is raised there and unwinds the `async with` blocks the
\* task is in: the connection context, if entered, gives the connection
\* back, and the semaphore context, if entered, releases the permit.  A
\* task cancelled inside Semaphore.acquire has taken no permit.  The retry
\* decorator does not handle CancelledError; gather treats the cancelled
\* task as one that raised CancelledError.
cancel(c, i) ==
    /\ i \in TaskIds(c)
    /\ ~Finished(c, i)
    /\ faults < MaxFaults
    /\ faults' = faults + 1
    /\ SetTask(c, i, exit_semaphore(exit_connection(
                        [tasks[c][i] EXCEPT !.pc = "failed", !.err = "CancelledError"])))
    /\ gather_exc' = [gather_exc EXCEPT ![c] = IF @ = NoErr THEN "CancelledError" ELSE @]
    /\ IF HoldsLease(c, i) THEN release_lease ELSE UNCHANGED leased
    /\ IF HoldsPermit(c, i) THEN release_permit(c) ELSE UNCHANGED semaphore
    /\ UNCHANGED <<config, cols, data_df, pool_state, op, op_result, callv>>

NextCancel ==
    \/ Next
    \/ \E c \in Calls : \E i \in 1..MaxRows : cancel(c, i)

SpecCancel == Init /\ [][NextCancel]_vars

\* C15: a cancelled task holds neither a permit nor a connection, whatever
\* await it was cancelled at, and the Semaphore of its call and the pool
\* count exactly what the other tasks hold: what the task held was given
\* back, and a task cancelled while it waited for a permit took none.
C15_CancelReleases ==
    \A c \in Calls :
        (\E i \in TaskIds(c) : tasks[c][i].err = "CancelledError") =>
            /\ \A i \in TaskIds(c) :
                  tasks[c][i].err = "CancelledError" =>
                      ~HoldsPermit(c, i) /\ ~HoldsLease(c, i)
            /\ semaphore[c] + Cardinality(PermitHolders(c)) = min_conn
            /\ leased = LeasesUpTo(MaxCalls)

\* With one permit: the first task was cancelled in the copy write, the
\* second task holds the permit and a connection, and the third task was
\* cancelled while it waited for the permit that the second task holds.
C15_Witness ==
    \E c \in Calls :
        /\ min_conn = 1
        /\ Len(tasks[c]) = 3
        /\ tasks[c][1].err = "CancelledError" /\ tasks[c][1].read # NoData
        /\ tasks[c][2].pc = "writing"
        /\ tasks[c][3].err = "CancelledError"
        /\ semaphore[c] = 0
        /\ leased = 1
====
